---- MODULE Spec2Model ----
(***************************************************************************)
(* A model of check_psi.py, a Nagios plugin that reads                      *)
(* /proc/pressure/<resource> and scores the avg10/avg60/avg300 values of    *)
(* each line against warning/critical ranges.                               *)
(*                                                                          *)
(* Text is modelled as sequences of one-character strings, so that the      *)
(* regular expression of PSI.probe, str.strip, str.split and float() are    *)
(* computed on the characters.  A float is kept as the exact decimal        *)
(* expansion of the IEEE double it is.                                      *)
(*                                                                          *)
(* The plugin delegates evaluation and reporting to the nagiosplugin        *)
(* library (Range, ScalarContext, Check, Results, guarded).  The            *)
(* definitions that model the library are placed at the line of             *)
(* check_psi.py that calls it.                                              *)
(***************************************************************************)
EXTENDS Integers, Sequences, FiniteSets

VARIABLES
    argv,       \* the command line: [resource, flag, value]
    pc,         \* position of the process
    contexts,   \* (kind, window) -> [warning, critical] ranges; <<>> before main builds them
    opened,     \* outcome of open(fn): "no", "ok", "FileNotFoundError", "OSError"
    lines,      \* the lines of the pseudo-file, once opened
    lineNo,     \* number of lines the for loop has taken
    groups,     \* match.groups() of the current line
    win,        \* index of the next window to yield for the current line
    results,    \* check.results, in the order added
    exc,        \* the exception that ended the run, "none" if none did
    message,    \* what the text of that exception embeds: [path, line]
    status,     \* the overall state printed
    exitcode    \* the process exit code, meaningful when pc = "done"

vars == <<argv, pc, contexts, opened, lines, lineNo, groups, win, results,
          exc, message, status, exitcode>>

----------------------------------------------------------------------------
(* Bounds of the model *)

\* the longest pseudo-file read, in lines
MaxLines == 2

----------------------------------------------------------------------------
(* Characters and text *)

Digits == {"0", "1", "2", "3", "4", "5", "6", "7", "8", "9"}

\* the characters str.strip() removes: those Python counts as whitespace.  A
\* character that cannot be written in a string is named by its code point
Whitespace ==
    { " ", "\t", "\n", "\r", "\f", "U+000B", "U+001C", "U+001D", "U+001E", "U+001F",
      "U+0085", "U+00A0", "U+1680", "U+2000", "U+2001", "U+2002", "U+2003",
      "U+2004", "U+2005", "U+2006", "U+2007", "U+2008", "U+2009", "U+200A",
      "U+2028", "U+2029", "U+202F", "U+205F", "U+3000" }

\* the character class [0-9.] of the regular expression
AvgClass == Digits \cup {"."}

\* the character class [0-9] of the regular expression
TotalClass == Digits

DigitValue(ch) ==
    CASE ch = "0" -> 0 [] ch = "1" -> 1 [] ch = "2" -> 2 [] ch = "3" -> 3
      [] ch = "4" -> 4 [] ch = "5" -> 5 [] ch = "6" -> 6 [] ch = "7" -> 7
      [] ch = "8" -> 8 [] ch = "9" -> 9

Drop(s, n) == SubSeq(s, n + 1, Len(s))

HasPrefix(s, p) == Len(s) >= Len(p) /\ SubSeq(s, 1, Len(p)) = p

\* str.strip(): leading and trailing whitespace removed
Strip(s) ==
    LET keep == {i \in DOMAIN s : s[i] \notin Whitespace}
    IN  IF keep = {} THEN <<>>
        ELSE LET lo == CHOOSE i \in keep : \A j \in keep : i <= j
                 hi == CHOOSE i \in keep : \A j \in keep : j <= i
             IN  SubSeq(s, lo, hi)

\* the length of the longest prefix of s made of characters of class
ClassRun(s, class) ==
    LET ok == {n \in 0..Len(s) : \A j \in 1..n : s[j] \in class}
    IN  CHOOSE n \in ok : \A m \in ok : m <= n

RECURSIVE Split(_, _)
\* str.split(sep) for a one-character separator
Split(s, sep) ==
    LET at == {i \in DOMAIN s : s[i] = sep}
    IN  IF at = {} THEN <<s>>
        ELSE LET i == CHOOSE k \in at : \A j \in at : k <= j
             IN  <<SubSeq(s, 1, i - 1)>> \o Split(Drop(s, i), sep)

----------------------------------------------------------------------------
(* Numbers.  A float is an IEEE double; every double is a finite decimal, and *)
(* it is kept as that decimal: the digits before and after the point, without *)
(* leading and trailing zeros, or infinity.  Arithmetic is done on the digits. *)

Zeros(n) == [i \in 1..n |-> 0]

\* s without its leading zeros
TrimLeft(s) ==
    IF \A i \in DOMAIN s : s[i] = 0 THEN <<>>
    ELSE SubSeq(s, CHOOSE i \in DOMAIN s : s[i] # 0 /\ \A j \in 1..(i - 1) : s[j] = 0,
                Len(s))

\* s without its trailing zeros
TrimRight(s) ==
    IF \A i \in DOMAIN s : s[i] = 0 THEN <<>>
    ELSE LET n == Len(s)
             z == CHOOSE k \in 0..(n - 1) : s[n - k] # 0 /\ \A j \in 0..(k - 1) : s[n - j] = 0
         IN  SubSeq(s, 1, n - z)

Decimal(int, frac) == [inf |-> FALSE, int |-> TrimLeft(int), frac |-> TrimRight(frac)]

Infinity == [inf |-> TRUE, int |-> <<>>, frac |-> <<>>]

RECURSIVE IntDigits(_)
\* the digits of a natural number
IntDigits(n) == IF n = 0 THEN <<>> ELSE IntDigits(n \div 10) \o <<n % 10>>

\* an int threshold as a number
Num(n) == Decimal(IntDigits(n), <<>>)

\* a < b on finite decimals: the longer integer part is the larger; otherwise the
\* digits are aligned at the point and compared at the first that differs
Less(a, b) ==
    IF a.inf THEN FALSE
    ELSE IF b.inf THEN TRUE
    ELSE IF Len(a.int) # Len(b.int) THEN Len(a.int) < Len(b.int)
    ELSE LET nf == IF Len(a.frac) > Len(b.frac) THEN Len(a.frac) ELSE Len(b.frac)
             da == a.int \o a.frac \o Zeros(nf - Len(a.frac))
             db == b.int \o b.frac \o Zeros(nf - Len(b.frac))
         IN  IF da = db THEN FALSE
             ELSE LET i == CHOOSE k \in DOMAIN da :
                               da[k] # db[k] /\ \A j \in 1..(k - 1) : da[j] = db[j]
                  IN  da[i] < db[i]

\* 2 * x: the carry into a digit is 1 exactly when the digit to its right is 5 or more
Double(x) ==
    LET d == <<0>> \o x.int \o x.frac
        n == Len(d)
        r == [i \in 1..n |->
                (2 * d[i] + (IF i < n /\ d[i + 1] >= 5 THEN 1 ELSE 0)) % 10]
    IN  Decimal(SubSeq(r, 1, Len(x.int) + 1), SubSeq(r, Len(x.int) + 2, n))

\* x / 2: an odd digit hands 5 to the digit to its right
Halve(x) ==
    LET d == x.int \o x.frac \o <<0>>
        n == Len(d)
        r == [i \in 1..n |->
                (d[i] \div 2) + (IF i > 1 /\ d[i - 1] % 2 = 1 THEN 5 ELSE 0)]
    IN  Decimal(SubSeq(r, 1, Len(x.int)), SubSeq(r, Len(x.int) + 1, n))

RECURSIVE Scale(_, _)
\* x * 2^k, by halves of k; the first half is computed before the second is begun
Scale(x, k) ==
    IF k = 0 THEN x
    ELSE IF k = 1 THEN Double(x)
    ELSE IF k = -1 THEN Halve(x)
    ELSE LET half == IF k > 0 THEN k \div 2 ELSE -((-k) \div 2)
             h == Scale(x, half)
         IN  IF h.inf THEN h ELSE Scale(h, k - half)

\* int + 1 on the digits of a natural number
AddOne(int) ==
    LET not9 == {i \in DOMAIN int : int[i] # 9}
    IN  IF not9 = {} THEN <<1>> \o Zeros(Len(int))
        ELSE LET j == CHOOSE i \in not9 : \A k \in not9 : k <= i
             IN  SubSeq(int, 1, j - 1) \o <<int[j] + 1>> \o Zeros(Len(int) - j)

\* the integer nearest to y, a tie going to the even one
RoundHalfEven(y) ==
    LET odd == y.int # <<>> /\ y.int[Len(y.int)] % 2 = 1
        up == /\ y.frac # <<>>
              /\ \/ y.frac[1] > 5
                 \/ y.frac[1] = 5 /\ (Len(y.frac) > 1 \/ odd)
    IN  IF up THEN AddOne(y.int) ELSE y.int

\* the position of the leading digit of x # 0: x is in [10^d, 10^(d+1))
DecimalExponent(x) ==
    IF x.int # <<>> THEN Len(x.int) - 1
    ELSE -(CHOOSE i \in DOMAIN x.frac : x.frac[i] # 0 /\ \A j \in 1..(i - 1) : x.frac[j] = 0)

\* the l with 2^l <= x < 2^(l+1), searched around the decimal exponent times log2(10)
BinaryExponent(x) ==
    LET d == DecimalExponent(x)
        one == Decimal(<<1>>, <<>>)
    IN  CHOOSE l \in (((d * 3321) \div 1000) - 2)..((((d + 1) * 3322) \div 1000) + 2) :
            ~Less(x, Scale(one, l)) /\ Less(x, Scale(one, l + 1))

\* the double nearest to the decimal x (round half to even): 53 bits of mantissa,
\* exponents down to 2^-1074 (subnormals), infinity from 2^1024 - 2^970 on
NearestDouble(x) ==
    IF x.int = <<>> /\ x.frac = <<>> THEN x
    ELSE IF DecimalExponent(x) >= 309 THEN Infinity
    ELSE IF DecimalExponent(x) <= -326 THEN Decimal(<<>>, <<>>)
    ELSE LET l == BinaryExponent(x)
             e == IF l - 52 < -1074 THEN -1074 ELSE l - 52
             m == RoundHalfEven(Scale(x, -e))
             r == Scale(Decimal(m, <<>>), e)
         IN  IF l > 1023 THEN Infinity
             ELSE IF l = 1023 /\ ~Less(r, Scale(Decimal(<<1>>, <<>>), 1024)) THEN Infinity
             ELSE r

\* whether float(tok) succeeds, for tok made of digits and dots
PyFloatOk(tok) ==
    /\ \A i \in DOMAIN tok : tok[i] \in AvgClass
    /\ Cardinality({i \in DOMAIN tok : tok[i] = "."}) <= 1
    /\ \E i \in DOMAIN tok : tok[i] \in Digits

\* the decimal a token of digits and at most one dot writes
Written(tok) ==
    LET dots == {i \in DOMAIN tok : tok[i] = "."}
        dot == IF dots = {} THEN Len(tok) + 1 ELSE CHOOSE i \in dots : TRUE
    IN  Decimal([i \in 1..(dot - 1) |-> DigitValue(tok[i])],
                [i \in 1..(Len(tok) - dot) |-> DigitValue(tok[dot + i])])

\* float(tok) with the fraction dropped, as int() would read it
PyFloatTruncating(tok) == NearestDouble(Decimal(Written(tok).int, <<>>))

\* float(tok): the double nearest to the decimal written
PyFloat(tok) == NearestDouble(Written(tok))

----------------------------------------------------------------------------
(* KindEnum and the default thresholds *)

Resources == {"cpu", "io", "memory"}

Kinds == {"full", "some"}

Fields == <<"avg10", "avg60", "avg300">>

\* the dest of --<kind>-<field> and the name of the metric <kind>_<field>
Keys == {<<k, Fields[i]>> : k \in Kinds, i \in 1..3}

default_cpu(kind) ==
    IF kind = "full"
    THEN [avg10 |-> <<3, 5>>, avg60 |-> <<2, 3>>, avg300 |-> <<1, 2>>]
    ELSE [avg10 |-> <<5, 10>>, avg60 |-> <<3, 7>>, avg300 |-> <<2, 5>>]

default_io(kind) ==
    IF kind = "full"
    THEN [avg10 |-> <<5, 10>>, avg60 |-> <<3, 7>>, avg300 |-> <<1, 3>>]
    ELSE [avg10 |-> <<10, 20>>, avg60 |-> <<7, 15>>, avg300 |-> <<5, 10>>]

default_memory(kind) ==
    IF kind = "full"
    THEN [avg10 |-> <<3, 5>>, avg60 |-> <<2, 3>>, avg300 |-> <<1, 2>>]
    ELSE [avg10 |-> <<5, 10>>, avg60 |-> <<3, 7>>, avg300 |-> <<2, 5>>]

\* getattr(kind, f"default_{resource}")[fn]
Default(resource, key) ==
    CASE resource = "cpu" -> default_cpu(key[1])[key[2]]
      [] resource = "io" -> default_io(key[1])[key[2]]
      [] resource = "memory" -> default_memory(key[1])[key[2]]

----------------------------------------------------------------------------
(* The regular expression of PSI.probe *)

KwSome == <<"s", "o", "m", "e">>

KwFull == <<"f", "u", "l", "l">>

LitAvg10 == <<" ", "a", "v", "g", "1", "0", "=">>

LitAvg60 == <<" ", "a", "v", "g", "6", "0", "=">>

LitAvg300 == <<" ", "a", "v", "g", "3", "0", "0", "=">>

LitTotal == <<" ", "t", "o", "t", "a", "l", "=">>

NoField == [ok |-> FALSE, tok |-> <<>>, rest |-> <<>>]

\* TakeField with "*" in place of "+": the run may be empty
TakeFieldStar(s, lit, class) ==
    IF ~HasPrefix(s, lit) THEN NoField
    ELSE LET t == Drop(s, Len(lit))
             n == ClassRun(t, class)
         IN  [ok |-> TRUE, tok |-> SubSeq(t, 1, n), rest |-> Drop(t, n)]

\* a literal followed by a greedy, non-empty run of a character class; the
\* character after each run is outside the class, so backtracking changes nothing
TakeField(s, lit, class) ==
    IF ~HasPrefix(s, lit) THEN NoField
    ELSE LET t == Drop(s, Len(lit))
             n == ClassRun(t, class)
         IN  IF n = 0 THEN NoField
             ELSE [ok |-> TRUE, tok |-> SubSeq(t, 1, n), rest |-> Drop(t, n)]

NoMatch ==
    [ok |-> FALSE, kind |-> "none", avg |-> <<>>, total |-> <<>>, rest |-> <<>>]

\* re.match("^(some|full) avg10=([0-9.]+) avg60=([0-9.]+) avg300=([0-9.]+)
\* total=([0-9]+)", s): anchored at the start only; rest is what follows the match
RegexMatch(s) ==
    LET kind == IF HasPrefix(s, KwSome) THEN "some"
                ELSE IF HasPrefix(s, KwFull) THEN "full" ELSE "none"
        f1 == TakeField(Drop(s, 4), LitAvg10, AvgClass)
        f2 == TakeField(f1.rest, LitAvg60, AvgClass)
        f3 == TakeField(f2.rest, LitAvg300, AvgClass)
        f4 == TakeField(f3.rest, LitTotal, TotalClass)
    IN  IF kind = "none" \/ ~f1.ok THEN NoMatch
        ELSE IF ~f2.ok THEN NoMatch
        ELSE IF ~f3.ok THEN NoMatch
        ELSE IF ~f4.ok THEN NoMatch
        ELSE [ok |-> TRUE, kind |-> kind, avg |-> <<f1.tok, f2.tok, f3.tok>>,
              total |-> f4.tok, rest |-> f4.rest]

----------------------------------------------------------------------------
(* nagiosplugin: Range, ScalarContext, Results *)

\* Range(spec) for a number: "spec = spec or ''" turns 0 into the empty
\* specification 0..infinity; any other number n is the range 0..n
Range(spec) ==
    IF spec = 0 THEN [start |-> 0, end |-> 0, unbounded |-> TRUE]
    ELSE [start |-> 0, end |-> spec, unbounded |-> FALSE]

\* Range.match with the end excluded: false at the end as well as above it
RangeMatchExclusive(r, value) ==
    IF Less(value, Num(r.start)) THEN FALSE
    ELSE IF ~r.unbounded /\ ~Less(value, Num(r.end)) THEN FALSE
    ELSE TRUE

\* Range.match(value): false below start, false above end, true otherwise
RangeMatch(r, value) ==
    IF Less(value, Num(r.start)) THEN FALSE
    ELSE IF ~r.unbounded /\ Less(Num(r.end), value) THEN FALSE
    ELSE TRUE

\* ScalarContext(name, warning, critical)
ScalarContext(pair) == [warning |-> Range(pair[1]), critical |-> Range(pair[2])]

\* ScalarContext.evaluate that first checks the metric's min=0 and max=100
EvaluateInBounds(ctx, value) ==
    IF Less(Num(100), value) \/ Less(value, Num(0)) THEN "unknown"
    ELSE IF ~RangeMatch(ctx.critical, value) THEN "critical"
    ELSE IF ~RangeMatch(ctx.warning, value) THEN "warning"
    ELSE "ok"

\* ScalarContext.evaluate(metric, resource)
Evaluate(ctx, value) ==
    IF ~RangeMatch(ctx.critical, value) THEN "critical"
    ELSE IF ~RangeMatch(ctx.warning, value) THEN "warning"
    ELSE "ok"

\* int(state) of nagiosplugin's Ok, Warn, Critical, Unknown
StateCode(state) ==
    CASE state = "ok" -> 0 [] state = "warning" -> 1
      [] state = "critical" -> 2 [] state = "unknown" -> 3

\* the state of the first result in place of the most significant one
MostSignificantStateFirst(rs) ==
    IF rs = <<>> THEN "unknown" ELSE rs[1].state

\* Unknown unless all six metrics have a result
MostSignificantStateComplete(rs) ==
    IF Len(rs) < 6 THEN "unknown"
    ELSE LET i == CHOOSE k \in DOMAIN rs :
                      \A j \in DOMAIN rs : StateCode(rs[j].state) <= StateCode(rs[k].state)
         IN  rs[i].state

\* Results.most_significant_state, with Check.state's fallback to Unknown
\* when there is no result (max of an empty list raises ValueError)
MostSignificantState(rs) ==
    IF rs = <<>> THEN "unknown"
    ELSE LET i == CHOOSE k \in DOMAIN rs :
                      \A j \in DOMAIN rs : StateCode(rs[j].state) <= StateCode(rs[k].state)
         IN  rs[i].state

NoName == <<"none", "none">>

\* the result of one evaluated metric
MetricResult(name, value, state) ==
    [state |-> state, name |-> name, value |-> value, error |-> FALSE]

\* Result(Unknown, str(e), metric): metric is the last metric evaluated, if any
ErrorResult(rs) ==
    IF rs = <<>>
    THEN [state |-> "unknown", name |-> NoName, value |-> Num(0), error |-> TRUE]
    ELSE [state |-> "unknown", name |-> rs[Len(rs)].name,
          value |-> rs[Len(rs)].value, error |-> TRUE]

----------------------------------------------------------------------------
(* parse_tuple and the command line *)

\* parse_tuple(value): the exception it ends with.  The parts of the split are
\* strings, so "0 <= parts[0]" compares an int with a str and raises TypeError,
\* which the except clause (ValueError only) does not catch; the return
\* statement is never reached
parse_tuple(value) ==
    LET parts == Split(value, ":")
    IN  IF Len(parts) # 2 THEN "ArgumentTypeError" ELSE "TypeError"

NoFlag == <<>>

\* the flag values tried: 1:2, 10:5, 5:150, abc, 1:2:3
OverrideValues ==
    { <<"1", ":", "2">>, <<"1", "0", ":", "5">>, <<"5", ":", "1", "5", "0">>,
      <<"a", "b", "c">>, <<"1", ":", "2", ":", "3">> }

OverrideFlags == { <<"some", "avg10">>, <<"full", "avg300">> }

\* the command lines: a resource, and at most one --<kind>-<field> WARN:CRIT
ArgvSet ==
    [resource : Resources, flag : {NoFlag}, value : {<<>>}]
    \cup [resource : Resources, flag : OverrideFlags, value : OverrideValues]

----------------------------------------------------------------------------
(* The pseudo-file *)

DigitChar(d) == <<"0", "1", "2", "3", "4", "5", "6", "7", "8", "9">>[d + 1]

RECURSIVE Dec(_)
\* a natural number in decimal
Dec(n) == IF n < 10 THEN <<DigitChar(n)>> ELSE Dec(n \div 10) \o <<DigitChar(n % 10)>>

\* hundredths written the way the kernel writes them: %lu.%02lu
Fix2(h) == Dec(h \div 100) \o <<".", DigitChar((h % 100) \div 10), DigitChar(h % 10)>>

\* a line of /proc/pressure/<resource>; avg is in hundredths of a percent
KernelLine(kind, avg, total) ==
    (IF kind = "some" THEN KwSome ELSE KwFull)
    \o LitAvg10 \o Fix2(avg[1]) \o LitAvg60 \o Fix2(avg[2])
    \o LitAvg300 \o Fix2(avg[3]) \o LitTotal \o Dec(total) \o <<"\n">>

\* the readings tried: the scenarios of the specification, values on and next
\* to the default thresholds, and one above 100
Readings ==
    { [kind |-> "some", avg |-> <<600, 200, 100>>, total |-> 100],
      [kind |-> "some", avg |-> <<1200, 200, 100>>, total |-> 100],
      [kind |-> "some", avg |-> <<500, 700, 201>>, total |-> 100],
      [kind |-> "some", avg |-> <<15000, 200, 100>>, total |-> 100],
      [kind |-> "some", avg |-> <<150, 0, 0>>, total |-> 1],
      [kind |-> "full", avg |-> <<0, 0, 0>>, total |-> 0],
      [kind |-> "full", avg |-> <<301, 300, 200>>, total |-> 7] }

KernelLines == {KernelLine(r.kind, r.avg, r.total) : r \in Readings}

\* "\fsome avg10=1.00 avg60=1.00 avg300=1.00 total=1": a form feed before the kind
LineFormFeed ==
    <<"\f">> \o KwSome \o LitAvg10 \o Fix2(100) \o LitAvg60 \o Fix2(100) \o LitAvg300
    \o Fix2(100) \o LitTotal \o <<"1", "\n">>

\* "some avg10=5.0000000000000001 avg60=9.99999999999999999999 avg300=1.00 total=1":
\* more digits than a double holds
LineLongDigits ==
    KwSome \o LitAvg10
    \o <<"5", ".", "0", "0", "0", "0", "0", "0", "0", "0", "0", "0", "0", "0", "0", "0", "0", "1">>
    \o LitAvg60
    \o <<"9", ".", "9", "9", "9", "9", "9", "9", "9", "9", "9", "9", "9", "9", "9", "9", "9", "9",
          "9", "9", "9", "9">>
    \o LitAvg300 \o Fix2(100) \o LitTotal \o <<"1", "\n">>

WellFormedLines == KernelLines \cup {LineFormFeed, LineLongDigits}

\* "some avg10=x avg60=1 avg300=1 total=1"
LineNonNumeric ==
    KwSome \o LitAvg10 \o <<"x">> \o LitAvg60 \o <<"1">> \o LitAvg300 \o <<"1">>
    \o LitTotal \o <<"1", "\n">>

\* an empty line
LineEmpty == <<"\n">>

\* "some avg10=6.00 avg60=2.00 avg300=1.00 total=100 extra"
LineTrailing ==
    KwSome \o LitAvg10 \o Fix2(600) \o LitAvg60 \o Fix2(200) \o LitAvg300
    \o Fix2(100) \o LitTotal \o Dec(100) \o <<" ", "e", "x", "t", "r", "a", "\n">>

\* "full avg10=0.00 avg60=1.2.3 avg300=0.00 total=1"
LineTwoDots ==
    KwFull \o LitAvg10 \o Fix2(0) \o LitAvg60 \o <<"1", ".", "2", ".", "3">>
    \o LitAvg300 \o Fix2(0) \o LitTotal \o <<"1", "\n">>

\* "some avg10=1.00 avg60=1.00 avg300=1.00 total="
LineNoTotal ==
    KwSome \o LitAvg10 \o Fix2(100) \o LitAvg60 \o Fix2(100) \o LitAvg300
    \o Fix2(100) \o LitTotal \o <<"\n">>

\* a byte that is not valid UTF-8, named by its value
BadByte == "0xFF"

\* "some avg10=1.00 avg60=1.00 avg300=1.00 total=1 " and a byte 0xFF
LineUndecodable ==
    KwSome \o LitAvg10 \o Fix2(100) \o LitAvg60 \o Fix2(100) \o LitAvg300
    \o Fix2(100) \o LitTotal \o <<"1", " ", BadByte, "\n">>

OtherLines ==
    {LineNonNumeric, LineEmpty, LineTrailing, LineTwoDots, LineNoTotal, LineUndecodable}

Lines == WellFormedLines \cup OtherLines

\* the contents a pseudo-file may have: up to MaxLines lines
Sources == UNION {[1..n -> Lines] : n \in 0..MaxLines}

\* whether the text layer of open() (UTF-8, errors="strict") can decode the file
Decodable(src) == \A i \in DOMAIN src : \A j \in DOMAIN src[i] : src[i][j] # BadByte

\* fn = f"/proc/pressure/{self.resource}"
Path(resource) == <<"/proc/pressure/", resource>>

NoMessage == [path |-> <<>>, line |-> <<>>]

----------------------------------------------------------------------------
(* The process *)

Init ==
    /\ argv \in ArgvSet
    /\ pc = "parse_args"
    /\ contexts = <<>>
    /\ opened = "no"
    /\ lines = <<>>
    /\ lineNo = 0
    /\ groups = NoMatch
    /\ win = 1
    /\ results = <<>>
    /\ exc = "none"
    /\ message = NoMessage
    /\ status = "none"
    /\ exitcode = -1

\* parse_args(): argparse applies parse_tuple to a flag's value (never to a
\* default, which is not a string); an ArgumentTypeError, TypeError or ValueError
\* of the type function becomes parser.error(), which prints the usage and raises
\* SystemExit(2), which guarded (except Exception) lets through
ParseArgs ==
    /\ pc = "parse_args"
    /\ IF argv.flag = NoFlag
       THEN /\ pc' = "contexts"
            /\ UNCHANGED <<exc, status, exitcode>>
       ELSE /\ exc' = parse_tuple(argv.value)
            /\ status' = "usage"
            /\ exitcode' = 2
            /\ pc' = "done"
    /\ UNCHANGED <<argv, contexts, opened, lines, lineNo, groups, win, results, message>>

\* main(): one ScalarContext per threshold of args, then Check(PSI(resource), ...)
BuildContexts ==
    /\ pc = "contexts"
    /\ contexts' = [k \in Keys |-> ScalarContext(Default(argv.resource, k))]
    /\ pc' = "probe"
    /\ UNCHANGED <<argv, opened, lines, lineNo, groups, win, results, exc,
                   message, status, exitcode>>

\* open(fn) succeeds: the for loop starts on the file's lines
OpenOk ==
    /\ pc = "probe"
    /\ \E src \in Sources : lines' = src
    /\ opened' = "ok"
    /\ pc' = "line"
    /\ UNCHANGED <<argv, contexts, lineNo, groups, win, results, exc, message,
                   status, exitcode>>

\* open(fn) raises FileNotFoundError or another OSError: both except clauses
\* format self.file_path, which PSI does not have, so AttributeError is raised
\* in place of CheckError; Check catches CheckError only, and guarded prints
\* "UNKNOWN: AttributeError: ..." and exits 3
OpenFails ==
    /\ pc = "probe"
    /\ \E e \in {"FileNotFoundError", "OSError"} : opened' = e
    /\ exc' = "AttributeError"
    /\ message' = NoMessage
    /\ status' = "unknown"
    /\ exitcode' = 3
    /\ pc' = "done"
    /\ UNCHANGED <<argv, contexts, lines, lineNo, groups, win, results>>

\* NextLine returning no partial result: on a line without a match the results
\* of the earlier lines are dropped
NextLineAllOrNothing ==
    /\ pc = "line"
    /\ lineNo < Len(lines)
    /\ \E upto \in (lineNo + 1)..Len(lines) :
          LET line == lines[lineNo + 1]
              match == RegexMatch(Strip(line))
          IN  IF ~Decodable(SubSeq(lines, lineNo + 1, upto))
              THEN /\ exc' = "UnicodeDecodeError"
                   /\ status' = "unknown"
                   /\ exitcode' = 3
                   /\ pc' = "done"
                   /\ UNCHANGED <<lineNo, groups, win, results, message>>
              ELSE IF match.ok
              THEN /\ lineNo' = lineNo + 1
                   /\ groups' = match
                   /\ win' = 1
                   /\ pc' = "yield"
                   /\ UNCHANGED <<results, exc, message, status, exitcode>>
              ELSE /\ lineNo' = lineNo + 1
                   /\ exc' = "CheckError"
                   /\ message' = [path |-> Path(argv.resource), line |-> line]
                   /\ results' = <<ErrorResult(<<>>)>>
                   /\ pc' = "report"
                   /\ UNCHANGED <<groups, win, status, exitcode>>
    /\ UNCHANGED <<argv, contexts, opened, lines>>

\* the for loop takes the next line and matches it; without a match it raises
\* CheckError, which Check turns into an Unknown result that ends the resource.
\* The text layer decodes what each read() delivers, and a read delivers the
\* line asked for and any number of the lines after it (upto): a byte that does
\* not decode in what was delivered raises UnicodeDecodeError in place of the
\* line, on the first line or once lines were yielded.  No except clause of
\* probe catches it (it is a ValueError), nor Check, and guarded prints it and
\* exits 3
NextLine ==
    /\ pc = "line"
    /\ lineNo < Len(lines)
    /\ \E upto \in (lineNo + 1)..Len(lines) :
          LET line == lines[lineNo + 1]
              match == RegexMatch(Strip(line))
          IN  IF ~Decodable(SubSeq(lines, lineNo + 1, upto))
              THEN /\ exc' = "UnicodeDecodeError"
                   /\ status' = "unknown"
                   /\ exitcode' = 3
                   /\ pc' = "done"
                   /\ UNCHANGED <<lineNo, groups, win, results, message>>
              ELSE IF match.ok
              THEN /\ lineNo' = lineNo + 1
                   /\ groups' = match
                   /\ win' = 1
                   /\ pc' = "yield"
                   /\ UNCHANGED <<results, exc, message, status, exitcode>>
              ELSE /\ lineNo' = lineNo + 1
                   /\ exc' = "CheckError"
                   /\ message' = [path |-> Path(argv.resource), line |-> line]
                   /\ results' = Append(results, ErrorResult(results))
                   /\ pc' = "report"
                   /\ UNCHANGED <<groups, win, status, exitcode>>
    /\ UNCHANGED <<argv, contexts, opened, lines>>

\* a read() behind the for loop fails with an OSError (EIO, EOPNOTSUPP, ...), on
\* the first line or once lines were yielded: the try block encloses the loop,
\* "except OSError" catches it and its handler formats self.file_path, which PSI
\* does not have, so AttributeError leaves probe and Check, and guarded prints it
\* and exits 3
ReadFails ==
    /\ pc = "line"
    /\ lineNo <= Len(lines)
    /\ exc' = "AttributeError"
    /\ status' = "unknown"
    /\ exitcode' = 3
    /\ pc' = "done"
    /\ UNCHANGED <<argv, contexts, opened, lines, lineNo, groups, win, results, message>>

\* the for loop is over: the generator returns
EndOfFile ==
    /\ pc = "line"
    /\ lineNo = Len(lines)
    /\ pc' = "report"
    /\ UNCHANGED <<argv, contexts, opened, lines, lineNo, groups, win, results,
                   exc, message, status, exitcode>>

\* yield Metric(f"{kind.value}_<field>", float(avg), ...): a ValueError of float()
\* leaves the generator and Check, and guarded exits 3; otherwise Check evaluates
\* the metric in the context of its name and adds the result
YieldMetric ==
    /\ pc = "yield"
    /\ LET tok == groups.avg[win]
           name == <<groups.kind, Fields[win]>>
           value == IF PyFloatOk(tok) THEN PyFloat(tok) ELSE Num(0)
       IN  IF PyFloatOk(tok)
           THEN /\ results' = Append(results,
                       MetricResult(name, value, Evaluate(contexts[name], value)))
                /\ win' = IF win = 3 THEN 1 ELSE win + 1
                /\ pc' = IF win = 3 THEN "line" ELSE "yield"
                /\ UNCHANGED <<exc, status, exitcode>>
           ELSE /\ exc' = "ValueError"
                /\ status' = "unknown"
                /\ exitcode' = 3
                /\ pc' = "done"
                /\ UNCHANGED <<results, win>>
    /\ UNCHANGED <<argv, contexts, opened, lines, lineNo, groups, message>>

\* Runtime.run: the status line and the exit code are the most significant
\* state of the results, Unknown (3) when there is none
Report ==
    /\ pc = "report"
    /\ status' = MostSignificantState(results)
    /\ exitcode' = StateCode(MostSignificantState(results))
    /\ pc' = "done"
    /\ UNCHANGED <<argv, contexts, opened, lines, lineNo, groups, win, results,
                   exc, message>>

Next ==
    \/ ParseArgs
    \/ BuildContexts
    \/ OpenOk
    \/ OpenFails
    \/ NextLine
    \/ ReadFails
    \/ EndOfFile
    \/ YieldMetric
    \/ Report

Spec == Init /\ [][Next]_vars

----------------------------------------------------------------------------
(* The threshold policy on its own: ScalarContext.evaluate applied to any    *)
(* threshold pair and any value, as main would apply it had the pair been    *)
(* configured                                                                *)

\* thresholds tried, in percent
ThresholdGrid == {0, 1, 2, 3, 5, 7, 10, 15, 20, 50, 100}

\* values tried: every half percent from 0 to 100
EvalValues == {Halve(Num(n)) : n \in 0..200}

EvalKey == <<"some", "avg10">>

InitEval ==
    /\ argv = [resource |-> "cpu", flag |-> NoFlag, value |-> <<>>]
    /\ pc = "evaluate"
    /\ contexts = <<>>
    /\ opened = "no"
    /\ lines = <<>>
    /\ lineNo = 0
    /\ groups = NoMatch
    /\ win = 1
    /\ results = <<>>
    /\ exc = "none"
    /\ message = NoMessage
    /\ status = "none"
    /\ exitcode = -1

\* contexts.append(ScalarContext(k, *v)) for one pair v, then the evaluation of
\* one metric of that name
EvaluateOne ==
    /\ pc = "evaluate"
    /\ \E w \in ThresholdGrid, c \in ThresholdGrid, v \in EvalValues :
          /\ w <= c
          /\ contexts' = [k \in {EvalKey} |-> ScalarContext(<<w, c>>)]
          /\ results' = <<MetricResult(EvalKey, v, Evaluate(ScalarContext(<<w, c>>), v))>>
    /\ pc' = "evaluated"
    /\ UNCHANGED <<argv, opened, lines, lineNo, groups, win, exc, message,
                   status, exitcode>>

NextEval == EvaluateOne

SpecEval == InitEval /\ [][NextEval]_vars

----------------------------------------------------------------------------
(* What the claims speak of *)

\* the number a Range was built from
ThresholdOf(r) == IF r.unbounded THEN 0 ELSE r.end

LessEq(a, b) == ~Less(b, a)

\* the lines of the catalogue by what the pattern of the reader makes of them,
\* classified by hand
UnmatchedLines == {LineNonNumeric, LineEmpty, LineNoTotal}

\* lines with a matching prefix whose three avg fields are numbers
ReadableLines == WellFormedLines \cup {LineTrailing}

\* the lines of the grammar "<kind> avg10=<float> avg60=<float> avg300=<float>
\* total=<integer>" with nothing else on the line
GrammarLines == WellFormedLines

\* the reading a readable line carries, in hundredths: the one it was written
\* from; 5.0000000000000001 and 9.99999999999999999999 are read as the doubles
\* 5 and 10
ReadingOf(line) ==
    IF line = LineTrailing
    THEN [kind |-> "some", avg |-> <<600, 200, 100>>, total |-> 100]
    ELSE IF line = LineFormFeed
    THEN [kind |-> "some", avg |-> <<100, 100, 100>>, total |-> 1]
    ELSE IF line = LineLongDigits
    THEN [kind |-> "some", avg |-> <<500, 1000, 100>>, total |-> 1]
    ELSE CHOOSE r \in Readings : KernelLine(r.kind, r.avg, r.total) = line

Hundredths(h) == Decimal(IntDigits(h \div 100), <<(h % 100) \div 10, h % 10>>)

\* the tail of the doubles nearest to 2.01 and 3.01: 2.01 - 2^-52 and 3.01 - 2^-52
\* to the last digit, 0099999999999997868371792719699442386627197265625
InexactTail ==
    <<0, 0, 9, 9, 9, 9, 9, 9, 9, 9, 9, 9, 9, 9, 9, 7, 8, 6, 8, 3, 7, 1, 7, 9, 2, 7, 1,
      9, 6, 9, 9, 4, 4, 2, 3, 8, 6, 6, 2, 7, 1, 9, 7, 2, 6, 5, 6, 2, 5>>

\* the float a value written in hundredths is read as, worked out by hand: of
\* the values of the catalogue all are doubles but 2.01 and 3.01
ValueWritten(h) ==
    IF h = 201 THEN Decimal(<<2>>, InexactTail)
    ELSE IF h = 301 THEN Decimal(<<3>>, InexactTail)
    ELSE Hundredths(h)

\* the results are the metrics of the first n lines, three a line, in order,
\* named after the line's kind and carrying the values written
MetricsOfLines(n) ==
    /\ Len(results) >= 3 * n
    /\ \A i \in 1..n : \A w \in 1..3 :
          LET r == results[3 * (i - 1) + w]
          IN  /\ ~r.error
              /\ r.name = <<ReadingOf(lines[i]).kind, Fields[w]>>
              /\ r.value = ValueWritten(ReadingOf(lines[i]).avg[w])

\* the source was opened and the run is over
ReadDone == pc = "done" /\ opened = "ok"

\* the same, and every read of the source succeeded: no OSError of read(), no
\* byte that does not decode
CleanRead == ReadDone /\ exc \notin {"AttributeError", "UnicodeDecodeError"}

\* the first line that is not readable is line i, and the pattern does not match it
FirstBadUnmatched(i) ==
    /\ i \in DOMAIN lines
    /\ lines[i] \in UnmatchedLines
    /\ \A j \in 1..(i - 1) : lines[j] \in ReadableLines

----------------------------------------------------------------------------
(* C1: the verdict of a value under a threshold pair *)

EvalWarn == ThresholdOf(contexts[EvalKey].warning)

EvalCrit == ThresholdOf(contexts[EvalKey].critical)

EvalValue == results[1].value

EvalState == results[1].state

\* C1 as stated, for the thresholds with 0 < warn <= crit <= 100 and v in
\* [0,100]: the verdict is Critical when v >= crit, Warning when
\* warn <= v < crit and OK when v < warn, the values v = warn and v = crit included
C1_VerdictInclusive ==
    (pc = "evaluated" /\ EvalWarn > 0) =>
        /\ LessEq(Num(EvalCrit), EvalValue) => EvalState = "critical"
        /\ (LessEq(Num(EvalWarn), EvalValue) /\ Less(EvalValue, Num(EvalCrit)))
              => EvalState = "warning"
        /\ Less(EvalValue, Num(EvalWarn)) => EvalState = "ok"

\* C1 amended: for 0 < warn <= crit <= 100 and v in [0,100], the verdict is
\* Critical when v > crit, Warning when warn < v <= crit and OK when v <= warn;
\* a value equal to a bound is inside the range of that bound
C1_VerdictExclusive ==
    (pc = "evaluated" /\ EvalWarn > 0) =>
        /\ Less(Num(EvalCrit), EvalValue) => EvalState = "critical"
        /\ (Less(Num(EvalWarn), EvalValue) /\ LessEq(EvalValue, Num(EvalCrit)))
              => EvalState = "warning"
        /\ LessEq(EvalValue, Num(EvalWarn)) => EvalState = "ok"

\* a value equal to the critical bound, above the warning bound, is a Warning
C1_Witness ==
    /\ pc = "evaluated"
    /\ EvalWarn > 0
    /\ EvalWarn < EvalCrit
    /\ EvalValue = Num(EvalCrit)
    /\ EvalState = "warning"

----------------------------------------------------------------------------
(* C2: the overall status and the exit code *)

\* the maximum of the verdicts under OK < Warning < Critical
ClaimOverall(rs) ==
    IF \E i \in DOMAIN rs : rs[i].state = "critical" THEN "critical"
    ELSE IF \E i \in DOMAIN rs : rs[i].state = "warning" THEN "warning"
    ELSE "ok"

ClaimExit(state) ==
    CASE state = "ok" -> 0 [] state = "warning" -> 1 [] state = "critical" -> 2
      [] OTHER -> 3

ScenarioWarning == <<KernelLine("some", <<600, 200, 100>>, 100)>>

ScenarioCritical == <<KernelLine("some", <<1200, 200, 100>>, 100)>>

\* the scenarios of the specification under the CPU defaults
C2_Scenarios ==
    /\ (argv.resource = "cpu" /\ lines = ScenarioWarning)
          => (status = "warning" /\ exitcode = 1)
    /\ (argv.resource = "cpu" /\ lines = ScenarioCritical)
          => (status = "critical" /\ exitcode = 2)

\* C2 as stated: after a run that read the source without error, the overall
\* status is the maximum verdict under OK < Warning < Critical and the exit
\* code is 0, 1 or 2 accordingly
C2_OverallIsMax ==
    (ReadDone /\ exc = "none") =>
        /\ status = ClaimOverall(results)
        /\ exitcode = ClaimExit(status)
        /\ exitcode \in {0, 1, 2}
        /\ C2_Scenarios

\* C2 amended: after a run that read the source without error and evaluated at
\* least one metric, the overall status is the maximum verdict under
\* OK < Warning < Critical and the exit code is 0, 1 or 2 accordingly (a source
\* without lines gives no verdict, and the run ends Unknown with exit code 3)
C2_OverallIsMaxOfSome ==
    /\ (ReadDone /\ exc = "none" /\ results # <<>>) =>
          /\ status = ClaimOverall(results)
          /\ exitcode = ClaimExit(status)
          /\ exitcode \in {0, 1, 2}
          /\ C2_Scenarios
    /\ (ReadDone /\ exc = "none" /\ results = <<>>) =>
          (status = "unknown" /\ exitcode = 3)

\* two lines whose verdicts differ: a Warning line, then a Critical one
C2_Witness ==
    /\ ReadDone
    /\ exc = "none"
    /\ argv.resource = "cpu"
    /\ lines = ScenarioWarning \o ScenarioCritical
    /\ results[1].state = "warning"
    /\ status = "critical"
    /\ exitcode = 2

----------------------------------------------------------------------------
(* C3, C4: threshold overrides *)

\* WARN:CRIT read as the specification reads it: two numbers around one colon
ClaimIsPair(value) ==
    /\ Len(Split(value, ":")) = 2
    /\ PyFloatOk(Split(value, ":")[1])
    /\ PyFloatOk(Split(value, ":")[2])

ClaimWarn(value) == PyFloat(Split(value, ":")[1])

ClaimCrit(value) == PyFloat(Split(value, ":")[2])

\* 0 <= WARN <= CRIT <= 100
ClaimValidPair(value) ==
    /\ ClaimIsPair(value)
    /\ LessEq(Num(0), ClaimWarn(value))
    /\ LessEq(ClaimWarn(value), ClaimCrit(value))
    /\ LessEq(ClaimCrit(value), Num(100))

\* C3: each of the six metrics is evaluated against the override given for it
\* when one is given with 0 <= WARN <= CRIT <= 100, and against the default
\* pair of the resource otherwise
C3_OverrideTakesPrecedence ==
    (pc = "done" /\ (argv.flag = NoFlag \/ ClaimValidPair(argv.value))) =>
        /\ contexts # <<>>
        /\ exc \notin {"TypeError", "ArgumentTypeError"}
        /\ \A k \in Keys :
              IF argv.flag = k
              THEN /\ Num(ThresholdOf(contexts[k].warning)) = ClaimWarn(argv.value)
                   /\ Num(ThresholdOf(contexts[k].critical)) = ClaimCrit(argv.value)
              ELSE /\ ThresholdOf(contexts[k].warning) = Default(argv.resource, k)[1]
                   /\ ThresholdOf(contexts[k].critical) = Default(argv.resource, k)[2]

\* C4: an override with WARN > CRIT or a bound outside [0,100] is rejected
\* before the source is opened or a metric evaluated, and the process exits
\* with code 3
C4_InvalidOverrideExits3 ==
    (pc = "done" /\ argv.flag # NoFlag /\ ClaimIsPair(argv.value)
        /\ ~ClaimValidPair(argv.value)) =>
        /\ opened = "no"
        /\ results = <<>>
        /\ exc # "none"
        /\ exitcode = 3

----------------------------------------------------------------------------
(* C5: a pseudo-file that cannot be opened *)

\* C5: when the pseudo-file cannot be opened the reader signals a check error
\* whose message names /proc/pressure/<resource>, no metric is evaluated, and
\* the run ends Unknown with exit code 3
C5_SourceUnavailable ==
    (pc = "done" /\ opened \in {"FileNotFoundError", "OSError"}) =>
        /\ exc = "CheckError"
        /\ message.path = Path(argv.resource)
        /\ results = <<>>
        /\ status = "unknown"
        /\ exitcode = 3

----------------------------------------------------------------------------
(* C6, C7: lines the reader does not accept *)

\* C6 as stated, for a source whose avg fields are all numbers and whose reads
\* all succeed: when some line does not conform to the grammar (nothing else on
\* the line included), the read fails with a check error whose message includes
\* such a line, and the run ends Unknown with exit code 3
C6_NonConformingLineFails ==
    (CleanRead /\ (\E i \in DOMAIN lines : lines[i] \notin GrammarLines)
        /\ \A i \in DOMAIN lines : lines[i] \in ReadableLines \cup UnmatchedLines) =>
        /\ exc = "CheckError"
        /\ message.line \notin GrammarLines
        /\ \E i \in DOMAIN lines : message.line = lines[i]
        /\ status = "unknown"
        /\ exitcode = 3

\* C6 amended: when every read of the source succeeds and the first line the
\* reader cannot read is one that, stripped of whitespace, does not begin with
\* "<kind> avg10=<[0-9.]+> avg60=<[0-9.]+> avg300=<[0-9.]+> total=<[0-9]+>" (text
\* after the total is accepted), the read fails with a CheckError whose message
\* includes the path and that line, and the run ends Unknown with exit code 3
\* whatever the verdicts of the earlier lines
C6_UnmatchedLineFails ==
    CleanRead =>
        \A i \in DOMAIN lines :
            FirstBadUnmatched(i) =>
                /\ exc = "CheckError"
                /\ message.line = lines[i]
                /\ message.path = Path(argv.resource)
                /\ status = "unknown"
                /\ exitcode = 3

\* a Critical line, then a line with a non-numeric field: Unknown, exit code 3
C6_Witness ==
    /\ ReadDone
    /\ argv.resource = "cpu"
    /\ lines = ScenarioCritical \o <<LineNonNumeric>>
    /\ exc = "CheckError"
    /\ results[1].state = "critical"
    /\ message.line = LineNonNumeric
    /\ exitcode = 3

\* C7 as stated, for a source whose other lines are well-formed and whose reads
\* all succeed: when a line of the source fails the grammar, no metric of any
\* line of that source is returned, evaluated or reported
C7_NoPartialResults ==
    (CleanRead /\ (\E i \in DOMAIN lines : lines[i] \in UnmatchedLines)
        /\ \A i \in DOMAIN lines : lines[i] \in UnmatchedLines \cup WellFormedLines) =>
        \A j \in DOMAIN results : results[j].error

\* the first line that is not readable is line i, which the pattern matches but
\* whose avg60 field ("1.2.3") float() rejects
FirstBadNotANumber(i) ==
    /\ i \in DOMAIN lines
    /\ lines[i] = LineTwoDots
    /\ \A j \in 1..(i - 1) : lines[j] \in ReadableLines

\* C7 amended: when every read of the source succeeds, the first line that,
\* stripped, does not begin with the pattern "<kind> avg10=<[0-9.]+>
\* avg60=<[0-9.]+> avg300=<[0-9.]+> total=<[0-9]+>" ends the read and makes the
\* run Unknown (exit code 3), but the metrics of the lines before it, three a
\* line, have been yielded and evaluated and stay in the results, followed by
\* one Unknown result for the error; no metric of that line or of a later line
\* is produced.  When the first line that cannot be read matches the pattern
\* but has a field that is not a number (avg60=1.2.3), the metrics of the lines
\* before it and of its own fields before the bad one have been yielded and
\* evaluated, float() raises ValueError, no Unknown result is added, and the run
\* ends Unknown with exit code 3.  A line with text after the total is read as
\* a good line
C7_PartialResultsKept ==
    CleanRead =>
        \A i \in DOMAIN lines :
            /\ FirstBadUnmatched(i) =>
                  /\ MetricsOfLines(i - 1)
                  /\ Len(results) = 3 * (i - 1) + 1
                  /\ results[Len(results)].error
                  /\ results[Len(results)].state = "unknown"
                  /\ exc = "CheckError"
                  /\ status = "unknown"
                  /\ exitcode = 3
            /\ FirstBadNotANumber(i) =>
                  /\ MetricsOfLines(i - 1)
                  /\ Len(results) = 3 * (i - 1) + 1
                  /\ ~results[Len(results)].error
                  /\ results[Len(results)].name = <<"full", "avg10">>
                  /\ results[Len(results)].value = Num(0)
                  /\ exc = "ValueError"
                  /\ status = "unknown"
                  /\ exitcode = 3
            /\ (lines[i] = LineTrailing /\ i = Len(lines)
                  /\ \A j \in 1..(i - 1) : lines[j] \in ReadableLines) =>
                  /\ MetricsOfLines(i)
                  /\ Len(results) = 3 * i
                  /\ exc = "none"

\* a Warning line, then an empty line: three metrics and the error
C7_Witness ==
    /\ ReadDone
    /\ argv.resource = "cpu"
    /\ lines = ScenarioWarning \o <<LineEmpty>>
    /\ Len(results) = 4
    /\ results[1].state = "warning"
    /\ ~results[1].error
    /\ results[4].error

----------------------------------------------------------------------------
(* C8: a source that omits a kind *)

KindsRead == {ReadingOf(lines[i]).kind : i \in DOMAIN lines}

AllWellFormed == \A i \in DOMAIN lines : lines[i] \in WellFormedLines

\* C8 as stated, for a source of one line or more: when the source is read
\* without a failure and well-formed but omits a kind, the run does not crash
\* and the result holds an Unknown verdict for each of the six keys without a
\* reading
C8_MissingKeysUnknown ==
    (CleanRead /\ AllWellFormed /\ lines # <<>> /\ KindsRead # Kinds) =>
        /\ exc = "none"
        /\ \A k \in Keys :
              k[1] \notin KindsRead =>
                  \E j \in DOMAIN results : results[j].name = k /\ results[j].state = "unknown"

\* C8 amended: when the source is read without a failure and well-formed but
\* omits a kind, the run does not crash and the result holds verdicts for the
\* keys that have a reading only: a key without a reading gets no verdict, and
\* the overall status is the maximum of the verdicts present (exit code 0, 1 or
\* 2), or Unknown (3) when the source has no line at all
C8_MissingKeysOmitted ==
    (CleanRead /\ AllWellFormed /\ KindsRead # Kinds) =>
        /\ exc = "none"
        /\ \A j \in DOMAIN results : results[j].state # "unknown"
        /\ \A k \in Keys :
              k[1] \notin KindsRead => \A j \in DOMAIN results : results[j].name # k
        /\ \A k \in Keys :
              k[1] \in KindsRead => \E j \in DOMAIN results : results[j].name = k
        /\ lines # <<>> => (status = ClaimOverall(results) /\ exitcode = ClaimExit(status))
        /\ lines = <<>> => (results = <<>> /\ status = "unknown" /\ exitcode = 3)

\* only a "some" line: three verdicts, none for "full", overall Warning
C8_Witness ==
    /\ ReadDone
    /\ argv.resource = "cpu"
    /\ lines = ScenarioWarning
    /\ Len(results) = 3
    /\ \A j \in DOMAIN results : results[j].name[1] = "some"
    /\ status = "warning"
    /\ exitcode = 1

----------------------------------------------------------------------------
(* C9: a value above 100 *)

\* C9 as stated: a reading whose value lies outside [0,100] is evaluated to
\* Unknown
C9_OutOfRangeUnknown ==
    \A j \in DOMAIN results :
        (~results[j].error /\ Less(Num(100), results[j].value))
            => results[j].state = "unknown"

\* C9 amended: a reading whose value exceeds 100 is passed through unclamped
\* and evaluated like any other: it is above the critical bound of every
\* default threshold, so its verdict is Critical, never Unknown, and a run that
\* reads the source without error ends Critical with exit code 2
C9_OutOfRangeCritical ==
    /\ \A j \in DOMAIN results :
          (~results[j].error /\ Less(Num(100), results[j].value))
              => results[j].state = "critical"
    /\ (ReadDone /\ exc = "none"
          /\ \E j \in DOMAIN results : Less(Num(100), results[j].value))
          => (status = "critical" /\ exitcode = 2)

\* avg10=150.00 read and evaluated
C9_Witness ==
    /\ ReadDone
    /\ lines = <<KernelLine("some", <<15000, 200, 100>>, 100)>>
    /\ exc = "none"
    /\ results[1].value = Num(150)
    /\ results[1].state = "critical"
    /\ exitcode = 2

----------------------------------------------------------------------------
(* C10: the metrics of a well-formed source *)

\* C10 as stated, for a source whose reads all succeed: a source of well-formed
\* lines, in any order and number, yields exactly one metric for each (kind,
\* window) met in it, with the value written; one "some" and one "full" line
\* yield six
C10_OneMetricPerKey ==
    (CleanRead /\ AllWellFormed) =>
        /\ \A k \in Keys :
              k[1] \in KindsRead =>
                  Cardinality({j \in DOMAIN results : results[j].name = k}) = 1
        /\ \A j \in DOMAIN results : results[j].name[1] \in KindsRead
        /\ (Len(lines) = 2 /\ KindsRead = Kinds) => Len(results) = 6

\* C10 amended: a source of well-formed lines, in any order and number, whose
\* reads all succeed yields exactly three metrics for each line, in the order
\* avg10, avg60, avg300, named after the line's kind and carrying the float
\* nearest to the value written; that is one metric for each (kind, window) when
\* no kind occurs twice, and six for one "some" and one "full" line
C10_ThreeMetricsPerLine ==
    (CleanRead /\ AllWellFormed) =>
        /\ exc = "none"
        /\ Len(results) = 3 * Len(lines)
        /\ MetricsOfLines(Len(lines))
        /\ (Len(lines) = 2 /\ KindsRead = Kinds) =>
              /\ Len(results) = 6
              /\ \A k \in Keys :
                    Cardinality({j \in DOMAIN results : results[j].name = k}) = 1

\* a "full" line before a "some" line: six metrics, the values as written
C10_Witness ==
    /\ ReadDone
    /\ lines = <<KernelLine("full", <<301, 300, 200>>, 7),
                 KernelLine("some", <<500, 700, 201>>, 100)>>
    /\ Len(results) = 6
    /\ results[1].name = <<"full", "avg10">>
    /\ results[1].value = ValueWritten(301)
    /\ results[6].name = <<"some", "avg300">>
    /\ results[6].value = ValueWritten(201)

====
